---------------------------- MODULE Spec2Model ----------------------------
(***************************************************************************)
(* HydroZynq data acquisition firmware: the command handler                *)
(* (parse_packet, receive_command) and the ping-phase scheduler (go, main) *)
(* of software/app/main_bin.c.                                             *)
(*                                                                         *)
(* A command payload is a sequence of one-character strings.  The sample   *)
(* buffer is represented by what the scheduler reads of it: its length and *)
(* the index of the first sample of channel 0 above the threshold.         *)
(***************************************************************************)
EXTENDS Integers, Sequences, FiniteSets, TLC

(***************************************************************************)
(* Bounds of the model.                                                    *)
(***************************************************************************)
\* One tick of the model clock is TickScale ticks of the hardware counter.
TickScale == 10
\* Datagrams the network stack holds between two dispatches.
MaxInbox == 1
\* The clock stops being advanced after this many milliseconds.
MaxTimeMs == 5000
\* Milliseconds from reset to the end of the initialisation of go().
BootMs == 100
\* Milliseconds of computation between two readings of the clock.
DelayMs == 2
\* Milliseconds the clock advances between two tests of the busy-wait.
WaitStepMs == 1000

(***************************************************************************)
(* Program constants.                                                      *)
(***************************************************************************)
ARM_CLK_PLL == 666667000
CPU_CLOCK_HZ == (ARM_CLK_PLL \div 2) \div TickScale
FPGA_CLK == 100000000
SAMPLES_PER_PACKET == 128
INITIAL_ADC_THRESHOLD == 1500
CLK_DIV == 10
DATA_SIZE == 1024
MAX_PAIRS == 10
MAX_SAMPLES == 45000 * 2200

(***************************************************************************)
(* Tick clock conversions.                                                 *)
(***************************************************************************)
ms_to_ticks(ms) == ms * (CPU_CLOCK_HZ \div 1000)
micros_to_ticks(us) == us * (CPU_CLOCK_HZ \div 1000000)
ticks_to_ms(t) == t \div (CPU_CLOCK_HZ \div 1000)

(***************************************************************************)
(* Characters and strings.                                                 *)
(***************************************************************************)
NUL == "NUL"
Digits == <<"0", "1", "2", "3", "4", "5", "6", "7", "8", "9">>
IsDigit(c) == \E d \in 1..10 : Digits[d] = c
DigitVal(c) == (CHOOSE d \in 1..10 : Digits[d] = c) - 1
IsSpace(c) == c = " "

\* strlen: characters from C index `start` of `data` up to the terminator.
RECURSIVE strlen(_, _)
strlen(data, start) ==
    IF data[start + 1] = NUL THEN 0 ELSE 1 + strlen(data, start + 1)

\* The NUL-terminated string that starts at C index `start` of `data`.
CStr(data, start) == SubSeq(data, start + 1, start + strlen(data, start))

\* strcmp(a, b) == 0
StrEq(a, b) == a = b

(***************************************************************************)
(* sscanf(value, "%u", &out): white space is skipped, then decimal digits  *)
(* are converted.  The return value is 1 after a conversion, 0 when the    *)
(* first character is no digit, and EOF when the input ends before any     *)
(* conversion; `out` is written only when the return value is 1.           *)
(***************************************************************************)
EOF == -1

RECURSIVE SkipSpace(_)
SkipSpace(s) == IF s # <<>> /\ IsSpace(Head(s)) THEN SkipSpace(Tail(s)) ELSE s

RECURSIVE ScanDigits(_, _)
ScanDigits(s, acc) ==
    IF s # <<>> /\ IsDigit(Head(s))
    THEN ScanDigits(Tail(s), acc * 10 + DigitVal(Head(s)))
    ELSE acc

sscanf_u(value, out) ==
    LET s == SkipSpace(value)
    IN  IF s = <<>> THEN [ret |-> EOF, out |-> out]
        ELSE IF ~IsDigit(Head(s)) THEN [ret |-> 0, out |-> out]
        ELSE [ret |-> 1, out |-> ScanDigits(s, 0)]

(***************************************************************************)
(* parse_packet.  `data` holds `len` characters; a key or value is the C   *)
(* index at which its string starts, NULL when there is none.              *)
(***************************************************************************)
NULL == -1

\* The first loop (lines 119-133): cut the entries at ',' and at the
\* terminator.  The terminator test at line 129 reads data[i] after line 124
\* has overwritten it.
RECURSIVE SplitEntries(_, _, _, _, _, _)
SplitEntries(data, len, max_pairs, i, keys, last_start) ==
    IF ~(i < len /\ Len(keys) < max_pairs)
    THEN [data |-> data, keys |-> keys]
    ELSE LET hit   == data[i + 1] = "," \/ data[i + 1] = NUL
             keys1 == IF hit THEN Append(keys, last_start) ELSE keys
             data1 == IF hit THEN [data EXCEPT ![i + 1] = NUL] ELSE data
             last1 == IF hit THEN i + 1 ELSE last_start
         IN  IF data1[i + 1] = NUL
             THEN [data |-> data1, keys |-> keys1]
             ELSE SplitEntries(data1, len, max_pairs, i + 1, keys1, last1)

\* The inner loop (lines 138-146): the C index of the first ':' of the key
\* that starts at `key`, NULL when it has none.
RECURSIVE FindColon(_, _, _)
FindColon(data, key, j) ==
    IF ~(j < strlen(data, key)) THEN NULL
    ELSE IF data[key + j + 1] = ":" THEN key + j
    ELSE FindColon(data, key, j + 1)

\* The second loop (lines 135-149): split every entry at its first ':'.
RECURSIVE SplitValues(_, _, _, _)
SplitValues(data, keys, i, pairs) ==
    IF ~(i < Len(keys)) THEN [ok |-> TRUE, data |-> data, pairs |-> pairs]
    ELSE LET colon == FindColon(data, keys[i + 1], 0)
         IN  IF colon = NULL
             THEN [ok |-> FALSE, data |-> data, pairs |-> pairs]
             ELSE SplitValues([data EXCEPT ![colon + 1] = NUL], keys, i + 1,
                      Append(pairs, [key |-> keys[i + 1], value |-> colon + 1]))

parse_packet(data, len, max_pairs) ==
    LET cut == SplitEntries(data, len, max_pairs, 0, <<>>, 0)
    IN  SplitValues(cut.data, cut.keys, 0, <<>>)

(***************************************************************************)
(* receive_command.  The handler works on the record                       *)
(*   [params, debug_stream, sync, gave_up]                                 *)
(* of the cells it can write; gave_up is set when give_up() is invoked.    *)
(***************************************************************************)
K_threshold == <<"t","h","r","e","s","h","o","l","d">>
K_filter == <<"f","i","l","t","e","r">>
K_debug == <<"d","e","b","u","g">>
K_pre == <<"p","r","e","_","p","i","n","g","_","d","u","r","a","t","i","o","n","_","u","s">>
K_post == <<"p","o","s","t","_","p","i","n","g","_","d","u","r","a","t","i","o","n","_","u","s">>
K_reset == <<"r","e","s","e","t">>

\* Line 165: the payload does not fit the buffer with its terminator.
TooLong_NoTerminator(len) == len > DATA_SIZE
TooLong(len) == len > (DATA_SIZE - 1)

\* One iteration of the loop at lines 179-230.  `garbage` is the value of the
\* uninitialised local of line 184.  AbortIfNot returns from the handler when
\* its argument is zero.
ApplyEntry_FilterSetsDebug(s, key, value, garbage) ==
    IF StrEq(key, K_threshold)
    THEN LET r == sscanf_u(value, garbage)
         IN  IF r.ret = 0 THEN [abort |-> TRUE, s |-> s]
             ELSE [abort |-> FALSE,
                   s |-> [s EXCEPT !.params.ping_threshold = r.out,
                                   !.sync = FALSE]]
    ELSE IF StrEq(key, K_filter)
    THEN LET r == sscanf_u(value, 0)
         IN  IF r.ret = 0 THEN [abort |-> TRUE, s |-> s]
             ELSE [abort |-> FALSE,
                   s |-> [s EXCEPT !.debug_stream = (r.out # 0)]]
    ELSE IF StrEq(key, K_debug)
    THEN LET r == sscanf_u(value, 0)
         IN  IF r.ret = 0 THEN [abort |-> TRUE, s |-> s]
             ELSE [abort |-> FALSE,
                   s |-> [s EXCEPT !.debug_stream = (r.out # 0)]]
    ELSE IF StrEq(key, K_pre)
    THEN LET r == sscanf_u(value, 0)
         IN  IF r.ret = 0 THEN [abort |-> TRUE, s |-> s]
             ELSE [abort |-> FALSE,
                   s |-> [s EXCEPT !.params.pre_ping_duration =
                                       micros_to_ticks(r.out)]]
    ELSE IF StrEq(key, K_post)
    THEN LET r == sscanf_u(value, 0)
         IN  IF r.ret = 0 THEN [abort |-> TRUE, s |-> s]
             ELSE [abort |-> FALSE,
                   s |-> [s EXCEPT !.params.post_ping_duration =
                                       micros_to_ticks(r.out)]]
    ELSE IF StrEq(key, K_reset)
    THEN [abort |-> TRUE, s |-> [s EXCEPT !.gave_up = TRUE]]
    ELSE [abort |-> FALSE, s |-> s]

ApplyEntry(s, key, value, garbage) ==
    IF StrEq(key, K_threshold)
    THEN LET r == sscanf_u(value, garbage)
         IN  IF r.ret = 0 THEN [abort |-> TRUE, s |-> s]
             ELSE [abort |-> FALSE,
                   s |-> [s EXCEPT !.params.ping_threshold = r.out,
                                   !.sync = FALSE]]
    ELSE IF StrEq(key, K_filter)
    THEN LET r == sscanf_u(value, 0)
         IN  IF r.ret = 0 THEN [abort |-> TRUE, s |-> s]
             ELSE [abort |-> FALSE,
                   s |-> [s EXCEPT !.params.filter = (r.out # 0)]]
    ELSE IF StrEq(key, K_debug)
    THEN LET r == sscanf_u(value, 0)
         IN  IF r.ret = 0 THEN [abort |-> TRUE, s |-> s]
             ELSE [abort |-> FALSE,
                   s |-> [s EXCEPT !.debug_stream = (r.out # 0)]]
    ELSE IF StrEq(key, K_pre)
    THEN LET r == sscanf_u(value, 0)
         IN  IF r.ret = 0 THEN [abort |-> TRUE, s |-> s]
             ELSE [abort |-> FALSE,
                   s |-> [s EXCEPT !.params.pre_ping_duration =
                                       micros_to_ticks(r.out)]]
    ELSE IF StrEq(key, K_post)
    THEN LET r == sscanf_u(value, 0)
         IN  IF r.ret = 0 THEN [abort |-> TRUE, s |-> s]
             ELSE [abort |-> FALSE,
                   s |-> [s EXCEPT !.params.post_ping_duration =
                                       micros_to_ticks(r.out)]]
    ELSE IF StrEq(key, K_reset)
    THEN [abort |-> TRUE, s |-> [s EXCEPT !.gave_up = TRUE]]
    ELSE [abort |-> FALSE, s |-> s]

RECURSIVE ApplyEntries(_, _, _, _, _)
ApplyEntries(s, data, pairs, i, garbage) ==
    IF ~(i < Len(pairs)) THEN s
    ELSE LET r == ApplyEntry(s, CStr(data, pairs[i + 1].key),
                             CStr(data, pairs[i + 1].value), garbage)
         IN  IF r.abort THEN r.s
             ELSE ApplyEntries(r.s, data, pairs, i + 1, garbage)

(***************************************************************************)
(* Command payloads.                                                       *)
(***************************************************************************)
Entry(key, value) == key \o <<":">> \o value
Pad(c, n) == [i \in 1..n |-> c]

P_threshold_filter == Entry(K_threshold, <<"1","5","0","0">>) \o <<",">> \o Entry(K_filter, <<"1">>)
P_threshold == Entry(K_threshold, <<"7">>)
P_threshold_same == Entry(K_threshold, <<"1","5","0","0">>)
P_filter_on == Entry(K_filter, <<"1">>)
P_filter_off == Entry(K_filter, <<"0">>)
P_debug_on == Entry(K_debug, <<"1">>)
P_debug_off == Entry(K_debug, <<"0">>)
P_pre == Entry(K_pre, <<"1","2","3">>)
P_pre_zero == Entry(K_pre, <<"0">>)
P_post == Entry(K_post, <<"2","0">>)
P_post_zero == Entry(K_post, <<"0">>)
P_reset == Entry(K_reset, <<"1">>)
P_unknown == Entry(<<"g","a","i","n">>, <<"3">>)
P_no_colon == K_threshold
P_empty_value == Entry(K_threshold, <<>>)
P_bad_value == Entry(K_threshold, <<"x">>)
P_bad_filter == Entry(K_filter, <<"o","n">>)
P_second_no_colon == P_filter_on \o <<",">> \o K_debug
P_second_bad_value == P_debug_on \o <<",">> \o P_bad_value
P_debug_then_filter == P_debug_on \o <<",">> \o P_filter_on
P_reset_empty == Entry(K_reset, <<>>)
P_filter_then_reset == P_filter_on \o <<",">> \o P_reset

\* threshold:7,pad:xx...x, `len` characters long.
LongCommand(len) ==
    P_threshold \o <<",">>
        \o Entry(<<"p","a","d">>, Pad("x", len - Len(P_threshold) - 5))

CmdPackets ==
    { P_threshold_filter, P_threshold, P_filter_on, P_filter_off, P_debug_on,
      P_debug_off, P_pre, P_pre_zero, P_post, P_post_zero, P_reset, P_unknown,
      P_no_colon, P_empty_value, P_bad_value, P_bad_filter, P_second_no_colon,
      P_second_bad_value, P_debug_then_filter, P_reset_empty,
      P_filter_then_reset,
      LongCommand(DATA_SIZE - 2), LongCommand(DATA_SIZE - 1),
      LongCommand(DATA_SIZE), LongCommand(DATA_SIZE + 1) }

\* The datagrams sent to the running scheduler.
SchedPackets ==
    { P_threshold_same, P_debug_on, P_debug_off, P_filter_on, P_post_zero }

\* parse_packet applied to the handler's copy of each payload of the model
\* (lines 173-177); the result depends on the payload alone.
Parsed ==
    [p \in CmdPackets \cup SchedPackets |->
        parse_packet(p \o <<NUL>>, Len(p) + 1, MAX_PAIRS)]

\* Lines 165-231.
receive_command(s, payload, garbage) ==
    IF TooLong(Len(payload)) THEN s
    ELSE IF ~Parsed[payload].ok THEN s
    ELSE ApplyEntries(s, Parsed[payload].data, Parsed[payload].pairs, 0, garbage)

(***************************************************************************)
(* State.                                                                  *)
(***************************************************************************)
VARIABLES
    pc,            \* position of go() / main()
    params,        \* HydroZynqParams params
    debug_stream,  \* bool debug_stream
    sync,          \* bool sync
    halted,        \* give_up() has reset the processor
    inbox,         \* datagrams received on the command port, not yet dispatched
    now,           \* get_system_time()
    local,         \* the locals of go()
    rx,            \* history: the last datagram handed to receive_command
    cyc,           \* history: what the current iteration of while (1) has done
    hist           \* history: across iterations

vars == <<pc, params, debug_stream, sync, halted, inbox, now, local, rx, cyc, hist>>

NoCross == -1
NoRx == [seen |-> FALSE, payload |-> <<>>, pre |-> <<>>, garbage |-> 0]
NoCycle ==
    [acquired |-> FALSE, sync_set |-> FALSE, predicted |-> FALSE, silent |-> <<>>,
     record_ms |-> 0, record_debug |-> FALSE, truncated |-> FALSE,
     trunc_failed |-> FALSE, correlated |-> FALSE,
     result |-> 0, xcorr |-> 0, data |-> <<>>]

\* The cells receive_command can write.
Cells == [params |-> params, debug_stream |-> debug_stream, sync |-> sync,
          gave_up |-> FALSE]

\* Values an uninitialised unsigned int may hold.
Garbage == {0, 4242}

(***************************************************************************)
(* dispatch_network_stack: every pending datagram of the command port is   *)
(* handed to receive_command, in order of arrival.                         *)
(***************************************************************************)
RECURSIVE Deliver(_, _, _)
Deliver(s, queue, garbage) ==
    IF queue = <<>> \/ s.gave_up THEN s
    ELSE Deliver(receive_command(s, Head(queue), garbage), Tail(queue), garbage)

\* Some datagram of the queue makes the handler execute line 187.
ClearsSync(s, queue, garbage) ==
    ~Deliver([s EXCEPT !.sync = TRUE], queue, garbage).sync

dispatch_network_stack(garbage) ==
    \E s1 \in {Deliver(Cells, inbox, garbage)} :
        /\ params' = s1.params
        /\ debug_stream' = s1.debug_stream
        /\ sync' = s1.sync
        /\ halted' = s1.gave_up
        /\ inbox' = <<>>
        /\ rx' = IF inbox = <<>> THEN NoRx
                 ELSE [seen |-> TRUE,
                       payload |-> inbox[Len(inbox)],
                       pre |-> Deliver(Cells, SubSeq(inbox, 1, Len(inbox) - 1),
                                       garbage),
                       garbage |-> garbage]
        /\ hist' = [hist EXCEPT !.cmd_resync =
                       @ \/ ClearsSync(Cells, inbox, garbage)]

\* A datagram arrives on the command port.
Receive(payload) ==
    /\ ~halted
    /\ Len(inbox) < MaxInbox
    /\ inbox' = Append(inbox, payload)
    /\ UNCHANGED <<pc, params, debug_stream, sync, halted, now, local, rx, cyc, hist>>

(***************************************************************************)
(* go(): the set-up of lines 345-359.                                      *)
(***************************************************************************)
InitialParams ==
    [sample_clk_div |-> CLK_DIV,
     samples_per_packet |-> SAMPLES_PER_PACKET,
     ping_threshold |-> INITIAL_ADC_THRESHOLD,
     pre_ping_duration |-> micros_to_ticks(100),
     post_ping_duration |-> micros_to_ticks(50),
     filter |-> FALSE]

\* The zero-initialised global of line 72.
ZeroParams ==
    [sample_clk_div |-> 0, samples_per_packet |-> 0, ping_threshold |-> 0,
     pre_ping_duration |-> 0, post_ping_duration |-> 0, filter |-> FALSE]

InitialLocal ==
    [previous_ping_tick |-> 0, next_ping_tick |-> 0, found |-> FALSE,
     num_samples |-> 0, sample_start_tick |-> 0, crossing |-> NoCross,
     located |-> FALSE, start_index |-> 0, end_index |-> 0]

InitialHist ==
    [cmd_resync |-> FALSE, trunc_resync |-> FALSE, recovered |-> FALSE,
     lengths |-> {}]

(***************************************************************************)
(* The command handler alone: one datagram is pending when the scheduler   *)
(* reaches the dispatch of line 367.                                       *)
(***************************************************************************)
InitCmd ==
    /\ pc = "loop_top"
    /\ \E t \in {INITIAL_ADC_THRESHOLD, 7}, f \in BOOLEAN :
          params = [InitialParams EXCEPT !.ping_threshold = t, !.filter = f]
    /\ debug_stream \in BOOLEAN
    /\ sync \in BOOLEAN
    /\ halted = FALSE
    /\ \E p \in CmdPackets : inbox = <<p>>
    /\ now = ms_to_ticks(BootMs)
    /\ local = InitialLocal
    /\ rx = NoRx
    /\ cyc = NoCycle
    /\ hist = InitialHist

CmdDispatch ==
    /\ ~halted
    /\ inbox # <<>>
    /\ \E g \in Garbage : dispatch_network_stack(g)
    /\ UNCHANGED <<pc, now, local, cyc>>

NextCmd == CmdDispatch

SpecCmd == InitCmd /\ [][NextCmd]_vars

(***************************************************************************)
(* Collaborators of the scheduler.                                         *)
(***************************************************************************)
Max(a, b) == IF a > b THEN a ELSE b
Min(a, b) == IF a < b THEN a ELSE b
RoundUp(n, m) == IF n % m = 0 THEN n ELSE n + (m - (n % m))

\* Time the scheduler spends computing between two readings of the clock.
Delays == {0, ms_to_ticks(DelayMs)}

\* Line 362.
sampling_frequency == FPGA_CLK \div (params.sample_clk_div * 2)

\* Lines 380 and 442: duration_ms / 1000.0 * sampling_frequency, converted to
\* uint32_t.  The sampling frequency is a whole number of kHz, and the
\* product is exact in double precision.
SamplesFor(duration_ms, fs) == duration_ms * (fs \div 1000)

\* Ticks between two samples, as lines 494 and acquire_sync compute them.
TicksPerSample(fs) == CPU_CLOCK_HZ \div fs

\* CPU_CLOCK_HZ in ticks of the hardware counter, and what the integer
\* division of line 494 drops: CPU_CLOCK_HZ = TicksPerSample * fs + remainder.
CPU_CLOCK_HZ_Exact == ARM_CLK_PLL \div 2
OffsetRemainder(fs) == CPU_CLOCK_HZ_Exact % fs

\* Number of samples in `ticks` ticks at frequency fs, rounded down.
SamplesIn(ticks, fs) == ((fs \div 1000) * ticks) \div (CPU_CLOCK_HZ \div 1000)

\* Index of the first sample of channel 0 above the threshold in the 2.1 s
\* buffer of acquire_sync, NoCross when there is none.
SyncCrossings == {NoCross, 0, 666660, 833325, 10000000}

\* The same for the buffer handed to truncate.
CaptureCrossings(n) == {NoCross, 0, SAMPLES_PER_PACKET, 1000, n - 1}

\* acquire_sync: found, and the tick of the crossing sample.
acquire_sync(start_tick, crossing, previous, fs) ==
    [found |-> crossing # NoCross,
     previous_ping_tick |->
         IF crossing = NoCross THEN previous
         ELSE start_tick + crossing * TicksPerSample(fs)]

\* truncate: the window [start, end) around the crossing.
truncate(n, crossing, p, fs) ==
    IF crossing = NoCross
    THEN [located |-> FALSE, start_index |-> 0, end_index |-> 0]
    ELSE [located |-> TRUE,
          start_index |-> Max(0, crossing - SamplesIn(p.pre_ping_duration, fs)),
          end_index |-> RoundUp(Min(n, crossing + SamplesIn(p.post_ping_duration, fs)),
                                p.samples_per_packet)]

(***************************************************************************)
(* request_thruster_shutdown (lines 242-255): the datagram built at clock  *)
(* reading `t`.                                                            *)
(***************************************************************************)
request_thruster_shutdown(t, future_ticks, duration) ==
    [at |-> t,
     when_ticks |-> future_ticks - t,
     duration_ms |-> ticks_to_ms(duration)]

(***************************************************************************)
(* go().                                                                   *)
(***************************************************************************)
Running(label) == pc = label /\ ~halted
InTime == now <= ms_to_ticks(MaxTimeMs)

\* Lines 267-334: the initialisation calls; any of them may fail.
go_init ==
    /\ Running("start")
    /\ \E ok \in BOOLEAN : pc' = IF ok THEN "first_record" ELSE "failed"
    /\ UNCHANGED <<params, debug_stream, sync, halted, inbox, now, local, rx, cyc, hist>>

\* Lines 340-359: the discarded first read and the initial parameters.
go_first_record ==
    /\ Running("first_record")
    /\ hist' = [hist EXCEPT !.lengths =
                   @ \cup {[call |-> "record", n |-> SAMPLES_PER_PACKET]}]
    /\ \E ok \in BOOLEAN :
          IF ok
          THEN /\ params' = InitialParams
               /\ local' = [local EXCEPT !.previous_ping_tick = now]
               /\ pc' = "loop_top"
          ELSE /\ pc' = "failed"
               /\ UNCHANGED <<params, local>>
    /\ UNCHANGED <<debug_stream, sync, halted, inbox, now, rx, cyc>>

\* Lines 362-367: the dispatch at the top of while (1).
go_dispatch_NoPoll ==
    /\ Running("loop_top")
    /\ cyc' = NoCycle
    /\ local' = [local EXCEPT !.located = FALSE, !.crossing = NoCross]
    /\ pc' = "sync_check"
    /\ UNCHANGED <<params, debug_stream, sync, halted, inbox, now, rx, hist>>

go_dispatch ==
    /\ Running("loop_top")
    /\ \E g \in Garbage : dispatch_network_stack(g)
    /\ cyc' = NoCycle
    /\ local' = [local EXCEPT !.located = FALSE, !.crossing = NoCross]
    /\ pc' = "sync_check"
    /\ UNCHANGED now

\* Lines 372-377: enter the sync loop when neither synced nor debugging.
go_sync_check ==
    /\ Running("sync_check")
    /\ IF ~sync /\ ~debug_stream
       THEN /\ local' = [local EXCEPT !.found = FALSE]
            /\ pc' = "acquire"
       ELSE /\ pc' = "predict"
            /\ UNCHANGED local
    /\ rx' = NoRx
    /\ UNCHANGED <<params, debug_stream, sync, halted, inbox, now, cyc, hist>>

\* Lines 379-391: one acquisition of 2.1 s.
go_acquire_sync ==
    /\ Running("acquire")
    /\ InTime
    /\ LET fs == sampling_frequency
           samples_to_take == SamplesFor(2100, fs)
       IN  \E ok \in BOOLEAN, c \in SyncCrossings :
             /\ now' = now + ms_to_ticks(2100)
             /\ IF ok
                THEN LET r == acquire_sync(now, c, local.previous_ping_tick, fs)
                     IN  /\ local' = [local EXCEPT
                                         !.found = r.found,
                                         !.previous_ping_tick = r.previous_ping_tick]
                         /\ hist' = [hist EXCEPT
                                !.lengths = @ \cup {[call |-> "acquire_sync",
                                                     n |-> samples_to_take]},
                                !.cmd_resync = @ /\ ~r.found,
                                !.recovered = @ \/ (hist.trunc_resync /\ r.found),
                                !.trunc_resync = @ /\ ~r.found]
                         /\ pc' = "sync_dispatch"
                ELSE /\ pc' = "failed"
                     /\ hist' = [hist EXCEPT
                            !.lengths = @ \cup {[call |-> "acquire_sync",
                                                 n |-> samples_to_take]}]
                     /\ UNCHANGED local
    /\ cyc' = [cyc EXCEPT !.acquired = TRUE]
    /\ rx' = NoRx
    /\ UNCHANGED <<params, debug_stream, sync, halted, inbox>>

\* Lines 397-403 and the loop test of line 377.
go_sync_dispatch_NoPoll ==
    /\ Running("sync_dispatch")
    /\ pc' = IF ~local.found /\ ~debug_stream THEN "acquire" ELSE "sync_done"
    /\ UNCHANGED <<params, debug_stream, sync, halted, inbox, now, local, rx, cyc, hist>>

go_sync_dispatch ==
    /\ Running("sync_dispatch")
    /\ \E g \in Garbage : dispatch_network_stack(g)
    /\ pc' = IF ~local.found /\ ~debug_stream' THEN "acquire" ELSE "sync_done"
    /\ UNCHANGED <<now, local, cyc>>

\* Lines 405-409.
SyncAfterAcquire_Keep(found) == sync
SyncAfterAcquire(found) == IF found THEN TRUE ELSE sync

go_sync_done ==
    /\ Running("sync_done")
    /\ sync' = SyncAfterAcquire(local.found)
    /\ cyc' = [cyc EXCEPT !.sync_set = local.found]
    /\ pc' = "predict"
    /\ rx' = NoRx
    /\ UNCHANGED <<params, debug_stream, halted, inbox, now, local, hist>>

\* Line 419 without the 50 ms of lead.
RECURSIVE PredictNext_NoLead(_, _)
PredictNext_NoLead(next_ping_tick, t) ==
    IF t > next_ping_tick
    THEN PredictNext_NoLead(next_ping_tick + ms_to_ticks(2000), t)
    ELSE next_ping_tick

\* Lines 418-422: add 2000 ms until the clock is not past next - 50 ms.
RECURSIVE PredictNext(_, _)
PredictNext(next_ping_tick, t) ==
    IF t > next_ping_tick - ms_to_ticks(50)
    THEN PredictNext(next_ping_tick + ms_to_ticks(2000), t)
    ELSE next_ping_tick

\* Line 416.
go_predict ==
    /\ Running("predict")
    /\ IF ~debug_stream
       THEN /\ local' = [local EXCEPT !.next_ping_tick =
                            PredictNext(local.previous_ping_tick, now)]
            /\ cyc' = [cyc EXCEPT !.predicted = TRUE]
            /\ pc' = "request"
       ELSE /\ pc' = "record"
            /\ UNCHANGED <<local, cyc>>
    /\ UNCHANGED <<params, debug_stream, sync, halted, inbox, now, rx, hist>>

\* Line 430: the duration of the silence asked for.
SilentDuration_Short == ms_to_ticks(50)
SilentDuration == ms_to_ticks(100)

\* Lines 427-430.
go_request ==
    /\ Running("request")
    /\ \E ok \in BOOLEAN, d \in Delays :
          /\ now' = now + d
          /\ IF ok
             THEN /\ cyc' = [cyc EXCEPT !.silent = Append(@,
                                 request_thruster_shutdown(now',
                                     local.next_ping_tick - ms_to_ticks(50),
                                     SilentDuration))]
                  /\ pc' = "wait"
             ELSE /\ pc' = "failed"
                  /\ UNCHANGED cyc
    /\ UNCHANGED <<params, debug_stream, sync, halted, inbox, local, rx, hist>>

\* Line 435: one test of the busy-wait; the clock advances while it spins.
go_wait_Polling ==
    /\ Running("wait")
    /\ IF now < local.next_ping_tick - ms_to_ticks(50)
       THEN /\ now' = Min(local.next_ping_tick - ms_to_ticks(50),
                          now + ms_to_ticks(WaitStepMs))
            /\ pc' = "wait"
       ELSE /\ now' = now
            /\ pc' = "record"
    /\ \E g \in Garbage : dispatch_network_stack(g)
    /\ UNCHANGED <<local, cyc>>

go_wait ==
    /\ Running("wait")
    /\ IF now < local.next_ping_tick - ms_to_ticks(50)
       THEN /\ now' = Min(local.next_ping_tick - ms_to_ticks(50),
                          now + ms_to_ticks(WaitStepMs))
            /\ pc' = "wait"
       ELSE /\ now' = now
            /\ pc' = "record"
    /\ UNCHANGED <<params, debug_stream, sync, halted, inbox, local, rx, cyc, hist>>

\* Line 441.
SampleDurationMs_Short(debug) == 300
SampleDurationMs(debug) == IF debug THEN 2100 ELSE 300

\* Lines 442-451.
NumSamples(duration_ms, fs, p) ==
    LET n == RoundUp(SamplesFor(duration_ms, fs), p.samples_per_packet)
    IN  IF n > MAX_SAMPLES
        THEN MAX_SAMPLES - (MAX_SAMPLES % SAMPLES_PER_PACKET)
        ELSE n

\* Lines 441-454.
go_record ==
    /\ Running("record")
    /\ InTime
    /\ LET ms == SampleDurationMs(debug_stream)
           n  == NumSamples(ms, sampling_frequency, params)
       IN  /\ local' = [local EXCEPT !.num_samples = n, !.sample_start_tick = now]
           /\ now' = now + ms_to_ticks(ms)
           /\ cyc' = [cyc EXCEPT !.record_ms = ms, !.record_debug = debug_stream]
           /\ hist' = [hist EXCEPT !.lengths = @ \cup {[call |-> "record", n |-> n]}]
    /\ \E ok \in BOOLEAN : pc' = IF ok THEN "normalize" ELSE "failed"
    /\ UNCHANGED <<params, debug_stream, sync, halted, inbox, rx>>

\* Line 456.
go_normalize ==
    /\ Running("normalize")
    /\ \E ok \in BOOLEAN : pc' = IF ok THEN "filter" ELSE "failed"
    /\ UNCHANGED <<params, debug_stream, sync, halted, inbox, now, local, rx, cyc, hist>>

\* Lines 461-468.
go_filter ==
    /\ Running("filter")
    /\ IF params.filter
       THEN \E ok \in BOOLEAN : pc' = IF ok THEN "debug_check" ELSE "failed"
       ELSE pc' = "debug_check"
    /\ UNCHANGED <<params, debug_stream, sync, halted, inbox, now, local, rx, cyc, hist>>

\* Lines 474-478.
go_debug_send ==
    /\ Running("debug_check")
    /\ IF debug_stream
       THEN \E ok \in BOOLEAN :
               IF ok
               THEN /\ cyc' = [cyc EXCEPT !.data = Append(@, local.num_samples)]
                    /\ pc' = "loop_top"
               ELSE /\ pc' = "failed"
                    /\ UNCHANGED cyc
       ELSE /\ pc' = "truncate"
            /\ UNCHANGED cyc
    /\ UNCHANGED <<params, debug_stream, sync, halted, inbox, now, local, rx, hist>>

\* Line 487.
SyncAfterTruncate_Keep(located) == sync
SyncAfterTruncate(located) == located

\* Lines 483-492.
go_truncate ==
    /\ Running("truncate")
    /\ \E ok \in BOOLEAN, c \in CaptureCrossings(local.num_samples) :
          IF ok
          THEN LET r == truncate(local.num_samples, c, params, sampling_frequency)
               IN  /\ local' = [local EXCEPT !.crossing = c,
                                             !.located = r.located,
                                             !.start_index = r.start_index,
                                             !.end_index = r.end_index]
                   /\ sync' = SyncAfterTruncate(r.located)
                   /\ cyc' = [cyc EXCEPT !.truncated = TRUE,
                                         !.trunc_failed = ~r.located]
                   /\ hist' = [hist EXCEPT !.trunc_resync = @ \/ ~r.located]
                   /\ pc' = IF sync' THEN "locate" ELSE "loop_top"
          ELSE /\ pc' = "failed"
               /\ cyc' = [cyc EXCEPT !.truncated = TRUE]
               /\ UNCHANGED <<local, sync, hist>>
    /\ UNCHANGED <<params, debug_stream, halted, inbox, now, rx>>

\* Lines 494-503.
go_locate ==
    /\ Running("locate")
    /\ local' = [local EXCEPT !.previous_ping_tick =
                    local.sample_start_tick
                        + local.start_index * TicksPerSample(sampling_frequency)]
    /\ pc' = IF local.end_index > local.start_index THEN "correlate" ELSE "failed"
    /\ UNCHANGED <<params, debug_stream, sync, halted, inbox, now, rx, cyc, hist>>

\* Lines 508-516.
go_correlate ==
    /\ Running("correlate")
    /\ \E ok \in BOOLEAN : pc' = IF ok THEN "send_result" ELSE "failed"
    /\ cyc' = [cyc EXCEPT !.correlated = TRUE]
    /\ UNCHANGED <<params, debug_stream, sync, halted, inbox, now, local, rx, hist>>

\* Line 521.
go_send_result ==
    /\ Running("send_result")
    /\ \E ok \in BOOLEAN :
          IF ok THEN /\ cyc' = [cyc EXCEPT !.result = @ + 1]
                     /\ pc' = "send_xcorr"
                ELSE /\ pc' = "failed"
                     /\ UNCHANGED cyc
    /\ UNCHANGED <<params, debug_stream, sync, halted, inbox, now, local, rx, hist>>

\* Line 526.
go_send_xcorr ==
    /\ Running("send_xcorr")
    /\ \E ok \in BOOLEAN :
          IF ok THEN /\ cyc' = [cyc EXCEPT !.xcorr = @ + 1]
                     /\ pc' = "send_data"
                ELSE /\ pc' = "failed"
                     /\ UNCHANGED cyc
    /\ UNCHANGED <<params, debug_stream, sync, halted, inbox, now, local, rx, hist>>

\* Line 527.
go_send_data ==
    /\ Running("send_data")
    /\ \E ok \in BOOLEAN :
          IF ok THEN /\ cyc' = [cyc EXCEPT !.data =
                                   Append(@, local.end_index - local.start_index)]
                     /\ pc' = "loop_top"
                ELSE /\ pc' = "failed"
                     /\ UNCHANGED cyc
    /\ UNCHANGED <<params, debug_stream, sync, halted, inbox, now, local, rx, hist>>

\* main(), lines 543-546: go() has returned; give_up() resets the processor.
main_give_up_Retry ==
    /\ Running("failed")
    /\ pc' = "start"
    /\ UNCHANGED <<params, debug_stream, sync, halted, inbox, now, local, rx, cyc, hist>>

main_give_up ==
    /\ Running("failed")
    /\ halted' = TRUE
    /\ UNCHANGED <<pc, params, debug_stream, sync, inbox, now, local, rx, cyc, hist>>

\* A command datagram arrives: at any time while the scheduler runs.  The
\* handler sees it at the next dispatch, so the arrivals of the model are
\* placed before each dispatch (lines 367 and 397), in the busy-wait of
\* line 435 and at the end of the record of line 454.
Arrive ==
    /\ pc \in {"loop_top", "sync_dispatch", "wait", "normalize"}
    /\ \E p \in SchedPackets : Receive(p)

Init ==
    /\ pc = "start"
    /\ params = ZeroParams
    /\ debug_stream = FALSE
    /\ sync = FALSE
    /\ halted = FALSE
    /\ inbox = <<>>
    /\ now = ms_to_ticks(BootMs)
    /\ local = InitialLocal
    /\ rx = NoRx
    /\ cyc = NoCycle
    /\ hist = InitialHist

\* One step of go() or of main().
SchedulerStep ==
    \/ go_init
    \/ go_first_record
    \/ go_dispatch
    \/ go_sync_check
    \/ go_acquire_sync
    \/ go_sync_dispatch
    \/ go_sync_done
    \/ go_predict
    \/ go_request
    \/ go_wait
    \/ go_record
    \/ go_normalize
    \/ go_filter
    \/ go_debug_send
    \/ go_truncate
    \/ go_locate
    \/ go_correlate
    \/ go_send_result
    \/ go_send_xcorr
    \/ go_send_data
    \/ main_give_up

Next == SchedulerStep \/ Arrive

Spec == Init /\ [][Next]_vars

\* The scheduler with the commands that decide whether and from which
\* previous_ping_tick a prediction is made (threshold, debug), each arriving
\* before a dispatch.  The tick clock advances and go() keeps executing: the
\* prediction, the request and each test of the busy-wait are eventually
\* carried out.
PredictionPackets == {P_threshold_same, P_debug_on, P_debug_off}

ArriveAtDispatch ==
    /\ pc \in {"loop_top", "sync_dispatch"}
    /\ \E p \in PredictionPackets : Receive(p)

NextFair == SchedulerStep \/ ArriveAtDispatch

SpecFair ==
    /\ Init
    /\ [][NextFair]_vars
    /\ WF_vars(go_predict) /\ WF_vars(go_request) /\ WF_vars(go_wait)

(***************************************************************************)
(* The command format as section 4.9 of the specification describes it:    *)
(* entries separated by ',', each split at its first ':'.                  *)
(***************************************************************************)
Cuts(p) == {0} \cup {i \in 1..Len(p) : p[i] = ","} \cup {Len(p) + 1}
EntriesOf(p) ==
    { SubSeq(p, c[1] + 1, c[2] - 1) :
        c \in { d \in Cuts(p) \X Cuts(p) :
                  /\ d[1] < d[2]
                  /\ ~\E m \in Cuts(p) : d[1] < m /\ m < d[2] } }
Colons(e) == {i \in 1..Len(e) : e[i] = ":"}
FirstColon(e) == CHOOSE i \in Colons(e) : \A j \in Colons(e) : i <= j
KeyOf(e) == SubSeq(e, 1, FirstColon(e) - 1)
ValueOf(e) == SubSeq(e, FirstColon(e) + 1, Len(e))
NumericKeys == {K_threshold, K_filter, K_debug, K_pre, K_post}
EntryMalformed(e) ==
    \/ Colons(e) = {}
    \/ /\ KeyOf(e) \in NumericKeys
       /\ sscanf_u(ValueOf(e), 0).ret # 1
Malformed(p) == Len(p) > DATA_SIZE \/ \E e \in EntriesOf(p) : EntryMalformed(e)

\* The handler has left params, debug_stream and sync as it found them.
Discarded ==
    /\ params = rx.pre.params
    /\ debug_stream = rx.pre.debug_stream
    /\ sync = rx.pre.sync

\* The entry threshold:7 has been applied.
AppliedThreshold7 == params.ping_threshold = 7 /\ ~sync

(***************************************************************************)
(* Properties of the command handler (SpecCmd).                            *)
(***************************************************************************)
\* C1: after the handler has processed threshold:1500,filter:1 the state is
\* ping_threshold = 1500, filter = true and sync = false: both entries of
\* the packet have been applied.
C1_Original ==
    (rx.seen /\ rx.payload = P_threshold_filter)
        => (params.ping_threshold = 1500 /\ params.filter = TRUE /\ sync = FALSE)

\* C9: a malformed packet (over-length, an entry without ':', or a numeric
\* key with an empty or non-numeric value) leaves params, debug_stream and
\* sync unchanged.
C9_Original == (rx.seen /\ Malformed(rx.payload)) => Discarded

HasResetEntry(p) ==
    \E e \in EntriesOf(p) : Colons(e) # {} /\ KeyOf(e) = K_reset

\* C11: when the handler has processed a packet that holds an entry with key
\* reset, whatever its value, give_up has been invoked before the handler
\* returned: the processor is reset and the scheduler does nothing more.
C11_Original ==
    (rx.seen /\ HasResetEntry(rx.payload)) => halted

\* The packet holds an entry key:value with this key.
HasKey(p, k) == \E e \in EntriesOf(p) : Colons(e) # {} /\ KeyOf(e) = k

\* The cells after the handler, next to rx.pre, the cells before it.
Post == [params |-> params, debug_stream |-> debug_stream, sync |-> sync,
         gave_up |-> FALSE]

\* C13: each recognised command changes exactly its own target.  A packet
\* pre_ping_duration_us:N sets pre_ping_duration to micros_to_ticks(N),
\* post_ping_duration_us:N sets post_ping_duration to micros_to_ticks(N),
\* filter sets only params.filter, debug sets only debug_stream, threshold
\* sets ping_threshold and clears sync, an unknown key changes nothing; and
\* for every packet, a cell changes only when the packet holds its command:
\* sync only by threshold, and only to false.
C13_FrameEffects ==
    rx.seen =>
        /\ rx.payload = P_pre
              => Post = [rx.pre EXCEPT !.params.pre_ping_duration = micros_to_ticks(123)]
        /\ rx.payload = P_pre_zero
              => Post = [rx.pre EXCEPT !.params.pre_ping_duration = micros_to_ticks(0)]
        /\ rx.payload = P_post
              => Post = [rx.pre EXCEPT !.params.post_ping_duration = micros_to_ticks(20)]
        /\ rx.payload = P_post_zero
              => Post = [rx.pre EXCEPT !.params.post_ping_duration = micros_to_ticks(0)]
        /\ rx.payload = P_filter_on => Post = [rx.pre EXCEPT !.params.filter = TRUE]
        /\ rx.payload = P_filter_off => Post = [rx.pre EXCEPT !.params.filter = FALSE]
        /\ rx.payload = P_debug_on => Post = [rx.pre EXCEPT !.debug_stream = TRUE]
        /\ rx.payload = P_debug_off => Post = [rx.pre EXCEPT !.debug_stream = FALSE]
        /\ rx.payload = P_threshold
              => Post = [rx.pre EXCEPT !.params.ping_threshold = 7, !.sync = FALSE]
        /\ rx.payload = P_unknown => Post = rx.pre
        /\ sync # rx.pre.sync => (HasKey(rx.payload, K_threshold) /\ ~sync)
        /\ params.ping_threshold # rx.pre.params.ping_threshold
              => HasKey(rx.payload, K_threshold)
        /\ params.filter # rx.pre.params.filter => HasKey(rx.payload, K_filter)
        /\ debug_stream # rx.pre.debug_stream => HasKey(rx.payload, K_debug)
        /\ params.pre_ping_duration # rx.pre.params.pre_ping_duration
              => HasKey(rx.payload, K_pre)
        /\ params.post_ping_duration # rx.pre.params.post_ping_duration
              => HasKey(rx.payload, K_post)
        /\ params.sample_clk_div = rx.pre.params.sample_clk_div
        /\ params.samples_per_packet = rx.pre.params.samples_per_packet

C13_Witness ==
    /\ rx.seen
    /\ rx.payload = P_pre
    /\ params.pre_ping_duration = micros_to_ticks(123)
    /\ rx.pre.params.pre_ping_duration # micros_to_ticks(123)

(***************************************************************************)
(* Properties of the scheduler (Spec).                                     *)
(***************************************************************************)
NonDebugCapture == cyc.record_ms # 0 /\ ~cyc.record_debug

\* C2: once a threshold command has been applied, no silent-running request
\* is sent and no 300 ms capture is started before a sync acquisition begun
\* after the command has returned found = true.
C2_Original ==
    hist.cmd_resync => (cyc.silent = <<>> /\ cyc.record_ms # 300)

\* C3: in the cycle in which truncate reports located = false, sync is
\* false, no result, correlation-trace or data datagram has been sent and go()
\* has not returned; and no later 300 ms capture starts before acquire_sync
\* has returned found = true.
C3_TruncateFailure ==
    /\ cyc.trunc_failed
          => /\ ~sync
             /\ cyc.result = 0 /\ cyc.xcorr = 0 /\ cyc.data = <<>>
             /\ pc = "loop_top"
    /\ (hist.trunc_resync /\ ~cyc.trunc_failed) => cyc.record_ms # 300

C3_Witness == hist.recovered /\ NonDebugCapture /\ cyc.record_ms = 300

\* C4: whenever truncate reports located = true, 0 <= start < end <=
\* num_samples and the crossing index lies in [start, end).
C4_Original ==
    local.located
        => /\ 0 <= local.start_index
           /\ local.start_index < local.end_index
           /\ local.end_index <= local.num_samples
           /\ local.start_index <= local.crossing
           /\ local.crossing < local.end_index

\* C5: every acquisition length the scheduler requests is a positive
\* multiple of samples_per_packet.
C5_Original ==
    \A r \in hist.lengths : r.n > 0 /\ r.n % SAMPLES_PER_PACKET = 0

\* C6 as stated: in a cycle whose capture starts with debug_stream set, the
\* record is the 2.1 s window, it is what is sent on the data-stream socket,
\* and the cycle uses no sync acquisition result (found is not latched into
\* sync, no prediction is made from previous_ping_tick), sends no
\* silent-running request, calls neither truncate nor cross_correlate and
\* sends no result or correlation datagram.
C6_Original ==
    cyc.record_debug
        => /\ cyc.record_ms = 2100
           /\ local.num_samples >= SamplesFor(2100, sampling_frequency)
           /\ ~cyc.sync_set
           /\ ~cyc.predicted
           /\ cyc.silent = <<>>
           /\ ~cyc.truncated /\ ~cyc.correlated
           /\ cyc.result = 0 /\ cyc.xcorr = 0
           /\ pc = "loop_top" => cyc.data = <<local.num_samples>>

\* C6 as amended: the same, except that an acquisition that returned found =
\* true before debug_stream was set by the dispatch of line 397 is still
\* latched into sync; the cycle makes no prediction from previous_ping_tick.
C6_DebugCycle ==
    cyc.record_debug
        => /\ cyc.record_ms = 2100
           /\ local.num_samples >= SamplesFor(2100, sampling_frequency)
           /\ ~cyc.predicted
           /\ cyc.silent = <<>>
           /\ ~cyc.truncated /\ ~cyc.correlated
           /\ cyc.result = 0 /\ cyc.xcorr = 0
           /\ pc = "loop_top" => cyc.data = <<local.num_samples>>

C6_Witness == cyc.record_debug /\ pc = "loop_top" /\ cyc.data # <<>>

\* C7: a cycle sends at most one silent-running request; when the 300 ms
\* record of a non-debug cycle has started, exactly one has been sent, no
\* later than the start of the record, with duration_ms = 100.
C7_OneSilentRequest ==
    /\ Len(cyc.silent) <= 1
    /\ NonDebugCapture
          => /\ Len(cyc.silent) = 1
             /\ cyc.silent[1].duration_ms = 100
             /\ cyc.silent[1].at <= local.sample_start_tick

C7_Witness == NonDebugCapture /\ Len(cyc.silent) = 1 /\ pc = "normalize"

\* C8: in a non-debug cycle the silent-running request is sent at least
\* 45 ms before the 300 ms record begins.
C8_Original ==
    (NonDebugCapture /\ Len(cyc.silent) = 1)
        => local.sample_start_tick - cyc.silent[1].at >= ms_to_ticks(45)

\* C12: a step in which a collaborator call of go() reports failure sends
\* nothing, and once go() has returned nothing is captured, sent or retried:
\* the only step left is main's give_up, which resets the processor.
C12_FailureIsFatal ==
    [][ /\ (pc # "failed" /\ pc' = "failed")
              => /\ cyc'.silent = cyc.silent
                 /\ cyc'.result = cyc.result
                 /\ cyc'.xcorr = cyc.xcorr
                 /\ cyc'.data = cyc.data
        /\ pc = "failed"
              => /\ pc' = "failed"
                 /\ halted'
                 /\ cyc' = cyc
                 /\ hist'.lengths = hist.lengths
                 /\ now' = now
                 /\ inbox' = inbox ]_vars

C12_Witness == pc = "failed" /\ halted /\ cyc.record_ms = 300 /\ cyc.correlated

\* The scheduler is in the sync loop of lines 377-403, debug mode is off and
\* no acquisition of this loop has returned found = true.
Desynced ==
    /\ ~debug_stream
    /\ pc = "acquire" \/ (pc = "sync_dispatch" /\ ~local.found)

\* C14: while debug mode is off and acquire_sync keeps returning found =
\* false, sync is false, no silent-running request, result, correlation-trace
\* or data datagram has been sent and no capture has been started; an
\* acquisition is followed by a dispatch of the network stack, which hands
\* every pending datagram to the handler, before the next acquisition.
C14_Desynced ==
    /\ [](Desynced
            => /\ ~sync
               /\ cyc.silent = <<>>
               /\ cyc.result = 0 /\ cyc.xcorr = 0 /\ cyc.data = <<>>
               /\ cyc.record_ms = 0)
    /\ [][ /\ (pc = "acquire" /\ pc' # "acquire")
                  => pc' \in {"sync_dispatch", "failed"}
           /\ (pc = "sync_dispatch" /\ pc' = "acquire")
                  => /\ inbox' = <<>>
                     /\ (inbox = <<>>
                           \/ (rx'.seen /\ rx'.payload = inbox[Len(inbox)])) ]_vars

C14_Witness == pc = "acquire" /\ cyc.acquired /\ ~local.found /\ rx.seen

\* The positions of go() from the prediction of line 416 to the last
\* transmission of line 527.
MidCycle ==
    {"predict", "request", "wait", "record", "normalize", "filter",
     "debug_check", "truncate", "locate", "correlate", "send_result",
     "send_xcorr", "send_data"}

\* C15: from the start of the prediction to the last transmission of the
\* cycle (or its truncate failure) the command handler does not run: no
\* datagram is taken from the command queue, params and debug_stream keep
\* their values, and sync changes only by the assignment after truncate.
C15_NoMidCycleCommand ==
    [][ (pc \in MidCycle)
          => /\ params' = params
             /\ debug_stream' = debug_stream
             /\ (sync' = sync \/ pc = "truncate")
             /\ rx' = rx
             /\ (inbox' = inbox \/ (Len(inbox') = Len(inbox) + 1
                                      /\ SubSeq(inbox', 1, Len(inbox)) = inbox))
             /\ halted' = FALSE ]_vars

\* A command arrived during the cycle and is still pending after the capture.
C15_Witness == pc = "correlate" /\ inbox # <<>> /\ cyc.record_ms = 300

\* The scheduler state (section 4.8 of the specification) of a position of
\* go().
SchedulerState(label) ==
    IF label \in {"acquire", "sync_dispatch", "sync_done"} THEN "DESYNCED"
    ELSE IF label = "predict" THEN "PREDICT"
    ELSE IF label \in {"request", "wait"} THEN "PRE_PING"
    ELSE IF label \in {"record", "normalize", "filter"} THEN "CAPTURE"
    ELSE IF label \in {"debug_check", "truncate", "locate", "correlate",
                       "send_result", "send_xcorr", "send_data"} THEN "PROCESS"
    ELSE label

CycleStates == {"DESYNCED", "PREDICT", "PRE_PING", "CAPTURE", "PROCESS"}

DispatchPoints == {"loop_top", "sync_dispatch"}

\* C16 as stated: the network stack is serviced in every scheduler state, so
\* when the scheduler leaves DESYNCED, PREDICT, PRE_PING, CAPTURE or PROCESS
\* every datagram that arrived during the state has been handled: none is
\* pending.
C16_Original ==
    [][ (/\ SchedulerState(pc) \in CycleStates
         /\ SchedulerState(pc') # SchedulerState(pc)
         /\ pc' # "failed")
          => inbox = <<>> ]_vars

\* C16 as amended: the network stack is serviced at the top of every cycle
\* (line 367) and after every sync acquisition (line 397), and nowhere else.
\* Each of these dispatches hands every pending datagram to the handler; a
\* datagram that arrives during PREDICT, PRE_PING, CAPTURE or PROCESS stays
\* pending until the dispatch at the top of the next cycle.
C16_Amended ==
    /\ [](pc = "sync_check" => inbox = <<>>)
    /\ [][ /\ (rx' # rx /\ rx'.seen) => pc \in DispatchPoints
           /\ (pc \in DispatchPoints /\ pc' # pc)
                 => /\ inbox' = <<>>
                    /\ (inbox = <<>>
                          \/ (rx'.seen /\ rx'.payload = inbox[Len(inbox)]))
           /\ (pc \in MidCycle /\ inbox # <<>>)
                 => /\ Len(inbox') >= Len(inbox)
                    /\ SubSeq(inbox', 1, Len(inbox)) = inbox
                    /\ pc' \in MidCycle \cup {"loop_top", "failed"} ]_vars

\* A datagram arrived during PRE_PING and is pending when CAPTURE begins.
C16_Witness == pc = "record" /\ inbox # <<>> /\ cyc.silent # <<>>

WithinOneSample(start_index, fs) ==
    \/ OffsetRemainder(fs) = 0
    \/ start_index <= (CPU_CLOCK_HZ_Exact - 1) \div OffsetRemainder(fs)

\* C18: after a cycle in which the ping was located, previous_ping_tick is
\* the tick at which sample start_index was acquired to within one sample
\* period.
C18_Original ==
    (pc = "correlate" /\ local.located /\ local.start_index < local.num_samples)
        => WithinOneSample(local.start_index, sampling_frequency)

\* C19: whenever the scheduler sends a silent-running request or starts a
\* 300 ms capture, sync is true: from the prediction of a cycle to its
\* truncate, the scheduler works from previous_ping_tick only with sync set.
C19_SyncWhenPredicting ==
    /\ (pc \in {"request", "wait"} \/ (pc = "record" /\ ~debug_stream)) => sync
    /\ (cyc.predicted /\ ~cyc.truncated) => sync
    /\ cyc.silent # <<>> => cyc.predicted
    /\ NonDebugCapture => cyc.predicted

\* A threshold command was handled in the sync loop and the cycle went on to
\* its request and capture.
C19_Witness ==
    /\ hist.cmd_resync
    /\ cyc.sync_set
    /\ NonDebugCapture
    /\ cyc.silent # <<>>
    /\ sync

\* C20: the when_ms field of every silent-running request is non-negative:
\* the clock read by request_thruster_shutdown has not passed the target
\* tick next_ping_tick - 50 ms.
C20_Original ==
    \A i \in 1..Len(cyc.silent) :
        /\ cyc.silent[i].when_ticks >= 0
        /\ ticks_to_ms(cyc.silent[i].when_ticks) >= 0

=============================================================================
